---------------------------- MODULE Spec2Model ----------------------------
(***************************************************************************)
(* The sale ledger of the inventory/sales application: the request         *)
(* handlers of routes.py that create, confirm, edit, void and delete sales *)
(* and that add and edit inventory items, over the tables of models.py.    *)
(*                                                                         *)
(* Spec runs the handlers one request at a time (each handler is one       *)
(* action, from its first read to its commit or rollback).  SpecConc runs  *)
(* two requests side by side: a request loads rows into its ORM session,   *)
(* changes the loaded objects in Python and writes the changed columns as  *)
(* absolute values at commit; nothing in the handlers locks or versions a  *)
(* row, so the loads of one request interleave with the commit of the      *)
(* other.                                                                  *)
(*                                                                         *)
(* The verdict of a handler's permission check is an input of the action   *)
(* (`permitted`): authorization is a collaborator of the ledger.           *)
(***************************************************************************)
EXTENDS Integers, Sequences, FiniteSets, TLC

VARIABLES
    inventory,   \* table inventory_item: id -> [quantity, status]
    sales,       \* table sale (with its sale_item rows): id -> Sale
    customers,   \* table customer: the set of ids
    nextSaleId,  \* the next primary key of table sale
    now,         \* datetime.utcnow(), in days
    releases,    \* history: how often each sale's stock was handed back
    intake,      \* history: the quantity each item was taken in with
    issued,      \* history: the invoice numbers of the sales committed, in order
    reqs         \* SpecConc: the requests in flight, one per worker

vars == <<inventory, sales, customers, nextSaleId, now, releases, intake, issued, reqs>>

---------------------------------------------------------------------------
(* Bounds of the model *)

MaxItems == 2       \* inventory items that intake creates
MaxQty == 1         \* largest quantity a form submits
MaxStock == 2       \* largest stock an item is followed to
MaxSales == 1       \* sales created in one behaviour
MaxLines == 2       \* line requests in one multi-item form
MaxCustomers == 1   \* customers created in one behaviour
MaxUsers == 1       \* staff accounts
MaxReleases == 2    \* times one sale's stock is followed being handed back
MaxConcSales == 2   \* sales created in one behaviour of concurrent requests
MaxNumbered == 3    \* sale rows in one behaviour of the invoice numbering
MaxDay == 2         \* calendar days in one behaviour of the invoice numbering

ItemIds == 1..MaxItems
SaleIds == 1..MaxSales
AllSaleIds == 1..(MaxSales + MaxConcSales + MaxNumbered)
UserIds == 1..MaxUsers
Workers == {1, 2}

\* A column holding NULL / None (primary keys and days start at 1).
None == 0

ItemStatus == {"available", "sold", "reserved"}

\* Quantities a client can post: int() accepts any integer.
QtyInputs == (0 - 1)..MaxQty

PaymentMethods == {"cash", "card"}

\* The payment proof a confirmation uploads: none, or a file.
ProofFiles == {None, 1}

\* Void reasons a client can post, as sequences of characters.
VoidReasons == { <<>>, <<" ">>, <<"d", "u", "p">> }

---------------------------------------------------------------------------
(* Pure helpers *)

Min(a, b) == IF a < b THEN a ELSE b

\* str.strip(): drops leading and trailing whitespace.
RECURSIVE LStrip(_)
LStrip(s) == IF s # <<>> /\ Head(s) = " " THEN LStrip(Tail(s)) ELSE s

RECURSIVE RStrip(_)
RStrip(s) ==
    IF s # <<>> /\ s[Len(s)] = " " THEN RStrip(SubSeq(s, 1, Len(s) - 1)) ELSE s

Strip(s) == RStrip(LStrip(s))

\* The decimal digits of a natural number.
RECURSIVE Digits(_)
Digits(n) == IF n < 10 THEN <<n>> ELSE Append(Digits(n \div 10), n % 10)

\* f"{sequence:04d}": zero-padded to at least four digits.
InvoiceSeqWidth == 4

Format04d(n) ==
    LET d == Digits(n)
    IN  IF Len(d) >= InvoiceSeqWidth
        THEN d
        ELSE [i \in 1..(InvoiceSeqWidth - Len(d)) |-> 0] \o d

\* int(text) of a digit string.
RECURSIVE ParseInt(_)
ParseInt(d) ==
    IF d = <<>> THEN 0 ELSE 10 * ParseInt(SubSeq(d, 1, Len(d) - 1)) + d[Len(d)]

\* String order of two digit strings (ORDER BY invoice_number).
StrLess(a, b) ==
    \E i \in 1..(Min(Len(a), Len(b)) + 1) :
        /\ \A j \in 1..(i - 1) : a[j] = b[j]
        /\ \/ i > Len(a) /\ i <= Len(b)
           \/ i <= Len(a) /\ i <= Len(b) /\ a[i] < b[i]

\* Sale.generate_invoice_number over the rows `rows` on day `day`: the
\* invoice with the day's prefix that sorts last, its sequence plus one.
generate_invoice_number(rows, day) ==
    LET todays == { rows[s].invoice_number.seq :
                        s \in { t \in DOMAIN rows : rows[t].invoice_number.day = day } }
        last == CHOOSE m \in todays : \A o \in todays : o = m \/ StrLess(o, m)
        sequence == IF todays # {} THEN ParseInt(last) + 1 ELSE 1
    IN  [day |-> day, seq |-> Format04d(sequence)]

\* A sale table without the unique constraint.
InvoiceNeverTaken(rows, inv) == FALSE

\* The unique constraint on sale.invoice_number.
InvoiceTaken(rows, inv) == \E s \in DOMAIN rows : rows[s].invoice_number = inv

---------------------------------------------------------------------------
(* Rows *)

\* A new Sale with the column defaults of models.py.
NewSale(inv, customer, method, user, item, qty, lines) ==
    [ invoice_number |-> inv,
      customer_id |-> customer,
      payment_method |-> method,
      payment_status |-> "pending",
      sold_by |-> user,
      inventory_id |-> item,
      quantity_sold |-> qty,
      sale_items |-> lines,
      total_sale_price |-> 0,
      total_discount_amount |-> 0,
      final_total_price |-> 0,
      payment_confirmed_at |-> None,
      payment_confirmed_by |-> None,
      payment_proof_file |-> None,
      voided_at |-> None,
      voided_by |-> None,
      void_reason |-> <<>> ]

NoLines == <<>>

\* Amounts of money are whole numbers of points, a hundredth of a cent: the
\* Decimal values the session holds are exact, and a product of cents and
\* whole percents has at most four decimals.  A price posted by a form is in
\* cents.
CentPoints == 100

\* "/ 100" of a percentage.
PercentBase == 100

\* The price and the discount the forms of the ledger post with a line.
ListPrice == 10
NoDiscount == 0

\* One row of the multi-item form.  A row whose item was left unselected
\* posts an empty inventory_id.
LineRows(items, quantities, prices, discounts) ==
    [inventory_id : items, quantity : quantities, unit_price : prices,
     discount_percentage : discounts]

Line(item, qty) ==
    [inventory_id |-> item, quantity |-> qty, unit_price |-> ListPrice,
     discount_percentage |-> NoDiscount]

\* The line requests of a multi-item form.
LineRequests ==
    UNION { [1..n -> LineRows(ItemIds \cup {None}, QtyInputs, {ListPrice}, {NoDiscount})] :
                n \in 0..MaxLines }

\* A worker between requests, with the outcome of its last one.
Idle(result) == [ pc |-> "idle", result |-> result ]

Init ==
    /\ inventory = <<>>
    /\ sales = <<>>
    /\ customers = {}
    /\ nextSaleId = 1
    /\ now = 1
    /\ releases = [s \in AllSaleIds |-> 0]
    /\ intake = <<>>
    /\ issued = <<>>
    /\ reqs = [w \in Workers |-> Idle("none")]


---------------------------------------------------------------------------
(* The ledger a handler reads and what it leaves behind.  A handler is an   *)
(* operator from the committed tables and the request's inputs to the      *)
(* committed tables after it and its outcome.                              *)

DB == [ inventory |-> inventory, sales |-> sales, customers |-> customers,
        nextSaleId |-> nextSaleId ]

\* The transaction was not committed (early return or rollback).
Unchanged(db, result) ==
    [ inventory |-> db.inventory, sales |-> db.sales, customers |-> db.customers,
      nextSaleId |-> db.nextSaleId, result |-> result ]

Committed(inv, sls, cust, nxt, result) ==
    [ inventory |-> inv, sales |-> sls, customers |-> cust, nextSaleId |-> nxt,
      result |-> result ]

\* db.session.add(customer) for a new customer (customer_id 0), else the
\* customer selected.
NewCustomerId(db) == Cardinality(db.customers) + 1

CustomerOf(db, customer_id) ==
    IF customer_id = 0 THEN NewCustomerId(db) ELSE customer_id

---------------------------------------------------------------------------
(* Inventory *)

\* add_inventory: InventoryForm requires quantity >= 1; status defaults to
\* 'available'.
add_inventory(db, permitted, qty) ==
    IF ~permitted THEN Unchanged(db, "denied")
    ELSE IF qty < 1 THEN Unchanged(db, "invalid_form")
    ELSE Committed(
            db.inventory @@ ((Cardinality(DOMAIN db.inventory) + 1) :>
                                [quantity |-> qty, status |-> "available"]),
            db.sales, db.customers, db.nextSaleId, "ok")

\* edit_inventory: quantity = int(form), status = form, unvalidated.
edit_inventory(db, permitted, item, qty, status) ==
    IF ~permitted THEN Unchanged(db, "denied")
    ELSE IF item \notin DOMAIN db.inventory THEN Unchanged(db, "not_found")
    ELSE Committed(
            [db.inventory EXCEPT ![item] = [quantity |-> qty, status |-> status]],
            db.sales, db.customers, db.nextSaleId, "ok")

---------------------------------------------------------------------------
(* Sale creation *)

\* add_sale: the single-item form.  SaleForm accepts an item among those
\* with status 'available' and a quantity >= 1.
add_sale(db, permitted, user, customer_id, name_given, item, qty, method, today) ==
    IF ~permitted THEN Unchanged(db, "denied")
    ELSE IF \/ item \notin DOMAIN db.inventory
            \/ db.inventory[item].status # "available"
            \/ qty < 1
            \/ (customer_id # 0 /\ customer_id \notin db.customers)
         THEN Unchanged(db, "invalid_form")
    ELSE IF customer_id = 0 /\ ~name_given THEN Unchanged(db, "customer_required")
    ELSE IF qty > db.inventory[item].quantity THEN Unchanged(db, "insufficient")
    ELSE LET inv == generate_invoice_number(db.sales, today)
             left == db.inventory[item].quantity - qty
             sale == NewSale(inv, CustomerOf(db, customer_id), method, user,
                             item, qty, NoLines)
         IN  IF InvoiceTaken(db.sales, inv) THEN Unchanged(db, "error")
             ELSE Committed(
                    [db.inventory EXCEPT ![item] =
                        [quantity |-> left,
                         status |-> IF left <= 0 THEN "sold" ELSE @.status]],
                    db.sales @@ (db.nextSaleId :> sale),
                    db.customers \cup {CustomerOf(db, customer_id)},
                    db.nextSaleId + 1, "created")

\* mobile_complete_sale: no permission check; quantity = int(json).
mobile_complete_sale(db, user, customer_id, name_given, item, qty, method, today) ==
    IF ~name_given THEN Unchanged(db, "customer_required")
    ELSE IF item \notin DOMAIN db.inventory \/ db.inventory[item].status # "available"
         THEN Unchanged(db, "not_available")
    ELSE IF qty > db.inventory[item].quantity THEN Unchanged(db, "insufficient")
    ELSE LET inv == generate_invoice_number(db.sales, today)
             left == db.inventory[item].quantity - qty
             sale == NewSale(inv, CustomerOf(db, customer_id), method, user,
                             item, qty, NoLines)
         IN  IF InvoiceTaken(db.sales, inv) THEN Unchanged(db, "error")
             ELSE Committed(
                    [db.inventory EXCEPT ![item] =
                        [quantity |-> left,
                         status |-> IF left = 0 THEN "sold" ELSE @.status]],
                    db.sales @@ (db.nextSaleId :> sale),
                    db.customers \cup {CustomerOf(db, customer_id)},
                    db.nextSaleId + 1, "created")

\* The loop of create_multi_item_sale on a sale_item table without its
\* foreign key to inventory_item: a line naming no inventory row is added
\* and no stock is touched for it.
RECURSIVE ProcessLines_unconstrained(_, _, _)
ProcessLines_unconstrained(inv, lines, k) ==
    IF k > Len(lines) THEN [inventory |-> inv, fk_error |-> FALSE]
    ELSE LET id == lines[k].inventory_id
             q == lines[k].quantity
         IN  IF id \in DOMAIN inv /\ inv[id].quantity >= q
             THEN ProcessLines_unconstrained(
                    [inv EXCEPT ![id] =
                        [quantity |-> @.quantity - q,
                         status |-> IF @.quantity - q = 0 THEN "sold" ELSE @.status]],
                    lines, k + 1)
             ELSE ProcessLines_unconstrained(inv, lines, k + 1)

\* One pass of the loop of create_multi_item_sale over the line requests:
\* the SaleItem is added whatever the stock; the stock is decremented only
\* when it covers the quantity, otherwise a warning is flashed.  A line
\* naming no inventory row breaks the foreign key of sale_item at the flush.
RECURSIVE ProcessLines(_, _, _)
ProcessLines(inv, lines, k) ==
    IF k > Len(lines) THEN [inventory |-> inv, fk_error |-> FALSE]
    ELSE LET id == lines[k].inventory_id
             q == lines[k].quantity
         IN  IF id \notin DOMAIN inv THEN [inventory |-> inv, fk_error |-> TRUE]
             ELSE IF inv[id].quantity >= q
             THEN ProcessLines(
                    [inv EXCEPT ![id] =
                        [quantity |-> @.quantity - q,
                         status |-> IF @.quantity - q = 0 THEN "sold" ELSE @.status]],
                    lines, k + 1)
             ELSE ProcessLines(inv, lines, k + 1)

\* SaleItem.calculate_line_totals: Decimal arithmetic, nothing is rounded.
calculate_line_totals(quantity_sold, unit_price, discount_percentage) ==
    LET line_total == quantity_sold * (unit_price * CentPoints)
        discount_amount == (line_total * discount_percentage) \div PercentBase
    IN  [line_total |-> line_total,
         discount_amount |-> discount_amount,
         final_line_total |-> line_total - discount_amount]

\* The rows of the form that the loop keeps: a row with an empty
\* inventory_id is skipped.
IsKept(line) == line.inventory_id # None

KeptLines(lines) == SelectSeq(lines, IsKept)

SaleItems(lines) ==
    [k \in 1..Len(lines) |->
        LET t == calculate_line_totals(lines[k].quantity, lines[k].unit_price,
                                       lines[k].discount_percentage)
        IN  [inventory_id |-> lines[k].inventory_id,
             quantity_sold |-> lines[k].quantity,
             unit_price |-> lines[k].unit_price * CentPoints,
             discount_percentage |-> lines[k].discount_percentage,
             line_total |-> t.line_total,
             discount_amount |-> t.discount_amount,
             final_line_total |-> t.final_line_total]]

\* sum(... for item in self.sale_items)
RECURSIVE SumOver(_, _, _)
SumOver(items, field, k) ==
    IF k > Len(items) THEN 0 ELSE items[k][field] + SumOver(items, field, k + 1)

\* Sale.calculate_totals
calculate_totals(sale) ==
    IF sale.sale_items # <<>>
    THEN [sale EXCEPT
            !.total_sale_price = SumOver(sale.sale_items, "line_total", 1),
            !.total_discount_amount = SumOver(sale.sale_items, "discount_amount", 1),
            !.final_total_price = SumOver(sale.sale_items, "final_line_total", 1)]
    ELSE sale

\* create_multi_item_sale without its check that a line was created.
create_multi_item_sale_unchecked(db, permitted, token_ok, user, customer_id, name_given, method, lines, today) ==
    IF ~permitted THEN Unchanged(db, "denied")
    ELSE IF ~token_ok THEN Unchanged(db, "token_expired")
    ELSE IF customer_id = 0 /\ ~name_given THEN Unchanged(db, "customer_required")
    ELSE IF customer_id # 0 /\ customer_id \notin db.customers THEN Unchanged(db, "error")
    ELSE LET inv == generate_invoice_number(db.sales, today)
             kept == KeptLines(lines)
             done == ProcessLines(db.inventory, kept, 1)
             sale == calculate_totals(
                        NewSale(inv, CustomerOf(db, customer_id), method, user,
                                None, None, SaleItems(kept)))
         IN  IF InvoiceTaken(db.sales, inv) THEN Unchanged(db, "error")
             ELSE IF done.fk_error THEN Unchanged(db, "error")
             ELSE Committed(
                    done.inventory,
                    db.sales @@ (db.nextSaleId :> sale),
                    db.customers \cup {CustomerOf(db, customer_id)},
                    db.nextSaleId + 1, "created")

\* create_multi_item_sale
create_multi_item_sale(db, permitted, token_ok, user, customer_id, name_given, method, lines, today) ==
    IF ~permitted THEN Unchanged(db, "denied")
    ELSE IF ~token_ok THEN Unchanged(db, "token_expired")
    ELSE IF customer_id = 0 /\ ~name_given THEN Unchanged(db, "customer_required")
    ELSE IF customer_id # 0 /\ customer_id \notin db.customers THEN Unchanged(db, "error")
    ELSE LET inv == generate_invoice_number(db.sales, today)
             kept == KeptLines(lines)
             done == ProcessLines(db.inventory, kept, 1)
             sale == calculate_totals(
                        NewSale(inv, CustomerOf(db, customer_id), method, user,
                                None, None, SaleItems(kept)))
         IN  IF InvoiceTaken(db.sales, inv) THEN Unchanged(db, "error")
             ELSE IF done.fk_error THEN Unchanged(db, "error")
             ELSE IF Len(kept) = 0 THEN Unchanged(db, "no_items")
             ELSE Committed(
                    done.inventory,
                    db.sales @@ (db.nextSaleId :> sale),
                    db.customers \cup {CustomerOf(db, customer_id)},
                    db.nextSaleId + 1, "created")

---------------------------------------------------------------------------
(* Operations on a sale *)

\* confirm_payment: a GET, or a form that does not validate, renders the
\* page; a valid POST marks the sale received whatever its status was.
confirm_payment(db, permitted, user, sale, submitted, proof, today) ==
    IF ~permitted THEN Unchanged(db, "denied")
    ELSE IF sale \notin DOMAIN db.sales THEN Unchanged(db, "not_found")
    ELSE IF ~submitted THEN Unchanged(db, "form_shown")
    ELSE Committed(
            db.inventory,
            [db.sales EXCEPT ![sale] =
                [@ EXCEPT !.payment_status = "received",
                          !.payment_confirmed_at = today,
                          !.payment_confirmed_by = user,
                          !.payment_proof_file = proof]],
            db.customers, db.nextSaleId, "confirmed")

\* edit_sale without its check of the sale's status.
edit_sale_unchecked(db, permitted, sale, customer_id, method) ==
    IF ~permitted THEN Unchanged(db, "denied")
    ELSE IF sale \notin DOMAIN db.sales THEN Unchanged(db, "not_found")
    ELSE IF customer_id \notin db.customers THEN Unchanged(db, "error")
    ELSE Committed(
            db.inventory,
            [db.sales EXCEPT ![sale] =
                [@ EXCEPT !.customer_id = customer_id, !.payment_method = method]],
            db.customers, db.nextSaleId, "updated")

\* edit_sale: customer and payment details of a sale that is not voided.
edit_sale(db, permitted, sale, customer_id, method) ==
    IF ~permitted THEN Unchanged(db, "denied")
    ELSE IF sale \notin DOMAIN db.sales THEN Unchanged(db, "not_found")
    ELSE IF db.sales[sale].payment_status = "voided" THEN Unchanged(db, "voided_sale")
    ELSE IF customer_id \notin db.customers THEN Unchanged(db, "error")
    ELSE Committed(
            db.inventory,
            [db.sales EXCEPT ![sale] =
                [@ EXCEPT !.customer_id = customer_id, !.payment_method = method]],
            db.customers, db.nextSaleId, "updated")

\* A void that hands back the first line of the sale only.
ReturnFirstLine(inv, lines, k) ==
    IF k > Len(lines) \/ k > 1 \/ lines[k].inventory_id \notin DOMAIN inv THEN inv
    ELSE [inv EXCEPT ![lines[k].inventory_id] =
            [quantity |-> @.quantity + lines[k].quantity_sold, status |-> "available"]]

\* The stock void_sale hands back: the legacy single item of the sale, then
\* every line, each set to 'available'.
RECURSIVE ReturnLines(_, _, _)
ReturnLines(inv, lines, k) ==
    IF k > Len(lines) THEN inv
    ELSE LET id == lines[k].inventory_id
         IN  IF id \in DOMAIN inv
             THEN ReturnLines(
                    [inv EXCEPT ![id] =
                        [quantity |-> @.quantity + lines[k].quantity_sold,
                         status |-> "available"]],
                    lines, k + 1)
             ELSE ReturnLines(inv, lines, k + 1)

ReturnLegacy(inv, sale) ==
    IF sale.inventory_id # None /\ sale.inventory_id \in DOMAIN inv
    THEN [inv EXCEPT ![sale.inventory_id] =
            [quantity |-> @.quantity + sale.quantity_sold, status |-> "available"]]
    ELSE inv

\* void_sale without its check of the sale's status.
void_sale_unchecked(db, permitted, user, sale, reason, today) ==
    IF ~permitted THEN Unchanged(db, "denied")
    ELSE IF sale \notin DOMAIN db.sales THEN Unchanged(db, "not_found")
    ELSE IF Strip(reason) = <<>> THEN Unchanged(db, "reason_required")
    ELSE Committed(
            ReturnLines(ReturnLegacy(db.inventory, db.sales[sale]),
                        db.sales[sale].sale_items, 1),
            [db.sales EXCEPT ![sale] =
                [@ EXCEPT !.payment_status = "voided",
                          !.voided_at = today,
                          !.voided_by = user,
                          !.void_reason = Strip(reason)]],
            db.customers, db.nextSaleId, "voided")

\* void_sale without its check of the reason.
void_sale_unreasoned(db, permitted, user, sale, reason, today) ==
    IF ~permitted THEN Unchanged(db, "denied")
    ELSE IF sale \notin DOMAIN db.sales THEN Unchanged(db, "not_found")
    ELSE IF db.sales[sale].payment_status = "voided" THEN Unchanged(db, "already_voided")
    ELSE Committed(
            ReturnLines(ReturnLegacy(db.inventory, db.sales[sale]),
                        db.sales[sale].sale_items, 1),
            [db.sales EXCEPT ![sale] =
                [@ EXCEPT !.payment_status = "voided",
                          !.voided_at = today,
                          !.voided_by = user,
                          !.void_reason = Strip(reason)]],
            db.customers, db.nextSaleId, "voided")

\* void_sale
void_sale(db, permitted, user, sale, reason, today) ==
    IF ~permitted THEN Unchanged(db, "denied")
    ELSE IF sale \notin DOMAIN db.sales THEN Unchanged(db, "not_found")
    ELSE IF db.sales[sale].payment_status = "voided" THEN Unchanged(db, "already_voided")
    ELSE IF Strip(reason) = <<>> THEN Unchanged(db, "reason_required")
    ELSE Committed(
            ReturnLines(ReturnLegacy(db.inventory, db.sales[sale]),
                        db.sales[sale].sale_items, 1),
            [db.sales EXCEPT ![sale] =
                [@ EXCEPT !.payment_status = "voided",
                          !.voided_at = today,
                          !.voided_by = user,
                          !.void_reason = Strip(reason)]],
            db.customers, db.nextSaleId, "voided")

\* The stock admin_delete_sale hands back: the legacy single item if the
\* sale has one, else every line; 'sold' becomes 'available'.
RECURSIVE RestoreLines(_, _, _)
RestoreLines(inv, lines, k) ==
    IF k > Len(lines) THEN inv
    ELSE LET id == lines[k].inventory_id
         IN  IF id \in DOMAIN inv
             THEN RestoreLines(
                    [inv EXCEPT ![id] =
                        [quantity |-> @.quantity + lines[k].quantity_sold,
                         status |-> IF @.status = "sold" THEN "available" ELSE @.status]],
                    lines, k + 1)
             ELSE RestoreLines(inv, lines, k + 1)

RestoreStock(inv, sale) ==
    IF sale.inventory_id # None /\ sale.inventory_id \in DOMAIN inv
    THEN [inv EXCEPT ![sale.inventory_id] =
            [quantity |-> @.quantity + sale.quantity_sold,
             status |-> IF @.status = "sold" THEN "available" ELSE @.status]]
    ELSE RestoreLines(inv, sale.sale_items, 1)

\* log_action, called with changes of the caller pending in the session:
\* it adds the AuditLog row and commits, which commits the pending changes
\* with it; when that fails it rolls the session back, and the pending
\* changes are gone.  `session` is the ledger as the session holds it,
\* `committed` the ledger as committed.
log_action(session, committed, logged) == IF logged THEN session ELSE committed

\* admin_delete_sale: restores stock whatever the sale's status, calls
\* log_action, then deletes the sale and, by cascade, its lines, and
\* commits.
admin_delete_sale(db, permitted, sale, logged) ==
    IF ~permitted THEN Unchanged(db, "denied")
    ELSE IF sale \notin DOMAIN db.sales THEN Unchanged(db, "not_found")
    ELSE LET restored == RestoreStock(db.inventory, db.sales[sale])
         IN  Committed(
                log_action(restored, db.inventory, logged),
                [s \in DOMAIN db.sales \ {sale} |-> db.sales[s]],
                db.customers, db.nextSaleId, "deleted")

---------------------------------------------------------------------------
(* One request at a time *)

\* The outcomes with which a handler hands a sale's stock back.
Releasing == {"voided", "deleted"}

\* The handler handed stock of the sale back: some item holds more than
\* before the request.
HandsBack(out) ==
    /\ out.result \in Releasing
    /\ \E i \in DOMAIN inventory : out.inventory[i].quantity > inventory[i].quantity

\* The tables take the handler's outcome.
Apply(sale, out) ==
    /\ inventory' = out.inventory
    /\ sales' = out.sales
    /\ customers' = out.customers
    /\ nextSaleId' = out.nextSaleId
    /\ releases' = IF HandsBack(out)
                   THEN [releases EXCEPT ![sale] = @ + 1]
                   ELSE releases
    /\ intake' = [i \in DOMAIN out.inventory |->
                    IF i \in DOMAIN intake THEN intake[i] ELSE out.inventory[i].quantity]
    /\ issued' = IF out.result = "created"
                 THEN Append(issued, out.sales[nextSaleId].invoice_number)
                 ELSE issued
    /\ UNCHANGED <<now, reqs>>

\* The request is served, within the bounds of the model.
Serve(sale, out) ==
    /\ \A i \in DOMAIN out.inventory :
            out.inventory[i].quantity \in (0 - MaxQty)..MaxStock
    /\ out.customers \subseteq 1..MaxCustomers
    /\ out.nextSaleId <= MaxSales + 1
    /\ HandsBack(out) => releases[sale] < MaxReleases
    /\ Apply(sale, out)

\* The inputs a handler reads once its checks `passed`; one default when it
\* returns before reading them.
Read(passed, inputs, default) == IF passed THEN inputs ELSE {default}

CustomerInputs == {0} \cup (1..MaxCustomers)

AddInventory ==
    \E permitted \in BOOLEAN :
    \E qty \in Read(permitted, QtyInputs, 1) :
        /\ Cardinality(DOMAIN inventory) < MaxItems
        /\ Serve(None, add_inventory(DB, permitted, qty))

EditInventory ==
    \E permitted \in BOOLEAN :
    \E item \in Read(permitted, ItemIds, 1) :
    \E qty \in Read(permitted, QtyInputs, 1), status \in Read(permitted, ItemStatus, "available") :
        /\ Serve(None, edit_inventory(DB, permitted, item, qty, status))

AddSale ==
    /\ nextSaleId <= MaxSales
    /\ \E permitted \in BOOLEAN :
       \E user \in UserIds, customer_id \in Read(permitted, CustomerInputs, 0),
          item \in Read(permitted, ItemIds, 1), qty \in Read(permitted, QtyInputs, 1),
          method \in PaymentMethods :
       \E name_given \in Read(permitted /\ customer_id = 0, BOOLEAN, TRUE) :
           Serve(nextSaleId,
                 add_sale(DB, permitted, user, customer_id, name_given, item, qty,
                          method, now))

MobileCompleteSale ==
    /\ nextSaleId <= MaxSales
    /\ \E name_given \in BOOLEAN :
       \E user \in UserIds, customer_id \in Read(name_given, {0} \cup customers, 0),
          item \in Read(name_given, ItemIds, 1), qty \in Read(name_given, QtyInputs, 1),
          method \in PaymentMethods :
           Serve(nextSaleId,
                 mobile_complete_sale(DB, user, customer_id, name_given, item, qty,
                                      method, now))

CreateMultiItemSale ==
    /\ nextSaleId <= MaxSales
    /\ \E permitted \in BOOLEAN :
       \E token_ok \in Read(permitted, BOOLEAN, TRUE) :
       \E user \in UserIds, customer_id \in Read(permitted /\ token_ok, CustomerInputs, 0),
          method \in PaymentMethods :
       \E name_given \in Read(permitted /\ token_ok /\ customer_id = 0, BOOLEAN, TRUE) :
       \E lines \in Read(permitted /\ token_ok /\ name_given, LineRequests, NoLines) :
           Serve(nextSaleId,
                 create_multi_item_sale(DB, permitted, token_ok, user, customer_id,
                                        name_given, method, lines, now))

ConfirmPayment ==
    \E permitted \in BOOLEAN :
    \E user \in UserIds, sale \in Read(permitted, SaleIds, 1) :
    \E submitted \in Read(permitted, BOOLEAN, TRUE) :
    \E proof \in Read(permitted /\ submitted, ProofFiles, None) :
        /\ Serve(sale, confirm_payment(DB, permitted, user, sale, submitted, proof, now))

EditSale ==
    \E permitted \in BOOLEAN :
    \E sale \in Read(permitted, SaleIds, 1),
       customer_id \in Read(permitted, 1..MaxCustomers, 1),
       method \in PaymentMethods :
        /\ Serve(sale, edit_sale(DB, permitted, sale, customer_id, method))

VoidSale ==
    \E permitted \in BOOLEAN :
    \E user \in UserIds, sale \in Read(permitted, SaleIds, 1),
       reason \in Read(permitted, VoidReasons, <<>>) :
        /\ Serve(sale, void_sale(DB, permitted, user, sale, reason, now))

AdminDeleteSale ==
    \E permitted \in BOOLEAN :
    \E sale \in Read(permitted, SaleIds, 1), logged \in Read(permitted, BOOLEAN, TRUE) :
        /\ Serve(sale, admin_delete_sale(DB, permitted, sale, logged))

Next ==
    \/ AddInventory
    \/ EditInventory
    \/ AddSale
    \/ MobileCompleteSale
    \/ CreateMultiItemSale
    \/ ConfirmPayment
    \/ EditSale
    \/ VoidSale
    \/ AdminDeleteSale

Spec == Init /\ [][Next]_vars

---------------------------------------------------------------------------
(* Two requests at a time.  A request reads rows as the handler reaches    *)
(* them (the snapshot its session holds), runs the handler on what it      *)
(* read, and at commit writes every column it changed, as the value it     *)
(* computed.                                                               *)

\* UPDATE ... SET of a flushed row: the columns whose value differs from the
\* one loaded take the session's value, the others stay as committed.
WriteBack(committed, loaded, local) ==
    [f \in DOMAIN committed |-> IF local[f] # loaded[f] THEN local[f] ELSE committed[f]]

WriteBackRows(committed, loaded, local) ==
    [i \in DOMAIN committed |->
        IF i \in DOMAIN loaded /\ i \in DOMAIN local
        THEN WriteBack(committed[i], loaded[i], local[i])
        ELSE committed[i]]

Creating == {"single_loaded", "single_numbered", "multi_read", "multi_inserted"}

InFlightCreations == Cardinality({w \in Workers : reqs[w].pc \in Creating})

\* Another session holds an uncommitted INSERT of the invoice number: the
\* unique index makes this INSERT wait for it.
InsertHeld(w, inv) ==
    \E o \in Workers \ {w} :
        reqs[o].pc = "multi_inserted" /\ reqs[o].invoice = inv

\* The two handlers that sell one item: both read the item, check its
\* stock, read the last invoice number and commit the sale with the item's
\* new quantity.
SingleItemRoutes == {"add_sale", "mobile_complete_sale"}

SingleItemSaleOf(route, db, item, qty) ==
    IF route = "add_sale"
    THEN add_sale(db, TRUE, 1, 0, TRUE, item, qty, "cash", now)
    ELSE mobile_complete_sale(db, 1, 0, TRUE, item, qty, "cash", now)

\* The handler reads the item and checks its stock.
CSingleItemLoad(w) ==
    /\ reqs[w].pc = "idle"
    /\ nextSaleId + InFlightCreations <= MaxConcSales
    /\ \E route \in SingleItemRoutes, item \in DOMAIN inventory, qty \in 1..MaxQty :
        /\ SingleItemSaleOf(route, DB, item, qty).result = "created"
        /\ reqs' = [reqs EXCEPT ![w] =
                        [pc |-> "single_loaded", route |-> route, item |-> item,
                         qty |-> qty, snap |-> DB]]
    /\ UNCHANGED <<inventory, sales, customers, nextSaleId, now, releases, intake, issued>>

\* The handler reads the last invoice number (generate_invoice_number).
CSingleItemNumber(w) ==
    /\ reqs[w].pc = "single_loaded"
    /\ reqs' = [reqs EXCEPT ![w] =
                    [@ EXCEPT !.pc = "single_numbered", !.snap.sales = sales]]
    /\ UNCHANGED <<inventory, sales, customers, nextSaleId, now, releases, intake, issued>>

\* The handler commits: INSERT of the sale, UPDATE of the item.  A taken
\* invoice number fails the INSERT and the transaction is rolled back.
CSingleItemCommit(w) ==
    /\ reqs[w].pc = "single_numbered"
    /\ LET r == reqs[w]
           \* the primary key is drawn at the INSERT
           out == SingleItemSaleOf(r.route, [r.snap EXCEPT !.nextSaleId = nextSaleId],
                                   r.item, r.qty)
           row == out.sales[nextSaleId]
           customer == Cardinality(customers) + 1
       IN  /\ ~InsertHeld(w, row.invoice_number)
           /\ IF InvoiceTaken(sales, row.invoice_number)
              THEN /\ reqs' = [reqs EXCEPT ![w] = Idle("error")]
                   /\ UNCHANGED <<inventory, sales, customers, nextSaleId, issued>>
              ELSE /\ inventory' = WriteBackRows(inventory, r.snap.inventory, out.inventory)
                   /\ sales' = sales @@
                        (nextSaleId :> [row EXCEPT !.customer_id = customer])
                   /\ customers' = customers \cup {customer}
                   /\ nextSaleId' = nextSaleId + 1
                   /\ issued' = Append(issued, row.invoice_number)
                   /\ reqs' = [reqs EXCEPT ![w] = Idle("created")]
    /\ UNCHANGED <<now, releases, intake>>

\* create_multi_item_sale reads the last invoice number.
CMultiRead(w) ==
    /\ reqs[w].pc = "idle"
    /\ nextSaleId + InFlightCreations <= MaxConcSales
    /\ \E item \in DOMAIN inventory :
        reqs' = [reqs EXCEPT ![w] =
                    [pc |-> "multi_read", item |-> item,
                     invoice |-> generate_invoice_number(sales, now)]]
    /\ UNCHANGED <<inventory, sales, customers, nextSaleId, now, releases, intake, issued>>

\* db.session.flush(): the INSERT of the sale.
CMultiInsert(w) ==
    /\ reqs[w].pc = "multi_read"
    /\ ~InsertHeld(w, reqs[w].invoice)
    /\ reqs' = [reqs EXCEPT ![w] =
                    IF InvoiceTaken(sales, reqs[w].invoice)
                    THEN Idle("error")
                    ELSE [@ EXCEPT !.pc = "multi_inserted"]]
    /\ UNCHANGED <<inventory, sales, customers, nextSaleId, now, releases, intake, issued>>

\* The loop over the lines (one line, one unit) and the commit.
CMultiCommit(w) ==
    /\ reqs[w].pc = "multi_inserted"
    /\ LET r == reqs[w]
           out == create_multi_item_sale(DB, TRUE, TRUE, 1, 0, TRUE, "cash",
                        << Line(r.item, 1) >>, now)
           row == out.sales[nextSaleId]
           customer == Cardinality(customers) + 1
       IN  /\ inventory' = out.inventory
           /\ sales' = sales @@
                (nextSaleId :> [row EXCEPT !.customer_id = customer,
                                           !.invoice_number = r.invoice])
           /\ customers' = customers \cup {customer}
           /\ nextSaleId' = nextSaleId + 1
           /\ issued' = Append(issued, r.invoice)
           /\ reqs' = [reqs EXCEPT ![w] = Idle("created")]
    /\ UNCHANGED <<now, releases, intake>>

VoidOf(db, sale) == void_sale(db, TRUE, 1, sale, <<"d", "u", "p">>, now)

\* void_sale reads the sale and checks its status.
CVoidLoad(w) ==
    /\ reqs[w].pc = "idle"
    /\ \E sale \in DOMAIN sales :
        /\ VoidOf(DB, sale).result = "voided"
        /\ releases[sale] < MaxReleases
        /\ reqs' = [reqs EXCEPT ![w] =
                        [pc |-> "void_loaded", sale |-> sale, snap |-> DB]]
    /\ UNCHANGED <<inventory, sales, customers, nextSaleId, now, releases, intake, issued>>

\* void_sale reads the items of the sale (sale.inventory_id, and the lazy
\* load of sale_item.inventory_item).
CVoidItems(w) ==
    /\ reqs[w].pc = "void_loaded"
    /\ reqs' = [reqs EXCEPT ![w] =
                    [@ EXCEPT !.pc = "void_items", !.snap.inventory = inventory]]
    /\ UNCHANGED <<inventory, sales, customers, nextSaleId, now, releases, intake, issued>>

\* void_sale commits: UPDATE of the sale and of its items.
CVoidCommit(w) ==
    /\ reqs[w].pc = "void_items"
    /\ LET r == reqs[w]
           out == VoidOf(r.snap, r.sale)
       IN  /\ releases[r.sale] < MaxReleases
           /\ inventory' = WriteBackRows(inventory, r.snap.inventory, out.inventory)
           /\ sales' = WriteBackRows(sales, r.snap.sales, out.sales)
           /\ releases' = [releases EXCEPT ![r.sale] = @ + 1]
           /\ reqs' = [reqs EXCEPT ![w] = Idle("voided")]
    /\ UNCHANGED <<customers, nextSaleId, now, intake, issued>>

NextConc ==
    \/ AddInventory
    \/ \E w \in Workers : CSingleItemLoad(w)
    \/ \E w \in Workers : CSingleItemNumber(w)
    \/ \E w \in Workers : CSingleItemCommit(w)
    \/ \E w \in Workers : CMultiRead(w)
    \/ \E w \in Workers : CMultiInsert(w)
    \/ \E w \in Workers : CMultiCommit(w)
    \/ \E w \in Workers : CVoidLoad(w)
    \/ \E w \in Workers : CVoidItems(w)
    \/ \E w \in Workers : CVoidCommit(w)

SpecConc == Init /\ [][NextConc]_vars

---------------------------------------------------------------------------
(* Claims on the handlers run one request at a time (Spec) *)

\* A request that passes the permission check and names a new customer.
MultiSale(db, lines) ==
    create_multi_item_sale(db, TRUE, TRUE, 1, 0, TRUE, "cash", lines, now)

\* The line asks for more than the item's stock.
Exceeds(inv, line) ==
    /\ line.inventory_id \in DOMAIN inv
    /\ line.quantity > inv[line.inventory_id].quantity

\* C1: a multi-item request with a line that asks for more than the item's
\* stock is rejected as InsufficientStock, persists no sale and leaves every
\* item's stock unchanged.
C1_AllOrNothing ==
    \A lines \in LineRequests :
        (\E k \in 1..Len(lines) : Exceeds(inventory, lines[k])) =>
            LET out == MultiSale(DB, lines)
            IN  /\ out.result = "insufficient"
                /\ out.sales = sales
                /\ out.inventory = inventory

\* C2: every inventory item's quantity is >= 0 in every reachable state.
C2_StockNonNegative ==
    \A i \in DOMAIN inventory : inventory[i].quantity >= 0

\* The tables a handler left behind, as the next handler reads them.
After(out) ==
    [ inventory |-> out.inventory, sales |-> out.sales, customers |-> out.customers,
      nextSaleId |-> out.nextSaleId ]

\* The units of item i that the line requests ask for.
RECURSIVE LineUnits(_, _, _)
LineUnits(lines, i, k) ==
    IF k > Len(lines) THEN 0
    ELSE (IF lines[k].inventory_id = i THEN lines[k].quantity ELSE 0)
         + LineUnits(lines, i, k + 1)

\* Every line asks for at least one unit and was taken from the stock in
\* full.
ReservedInFull(inv, lines, after) ==
    /\ \A k \in 1..Len(lines) : lines[k].quantity >= 1
    /\ \A i \in DOMAIN inv : after[i].quantity = inv[i].quantity - LineUnits(lines, i, 1)

\* The data model's invariant of an item: its quantity is not negative and
\* it is 'sold' exactly when nothing is left of it.
WellFormed(inv) ==
    \A i \in DOMAIN inv :
        /\ inv[i].quantity >= 0
        /\ inv[i].status = "sold" <=> inv[i].quantity = 0

\* C3: create_sale followed by void_sale of the sale it committed leaves
\* every item with the quantity and the status it had before the sale.
\* Stated for well-formed items and the sales whose every line was reserved
\* in full.
C3_CreateVoidRoundTrip ==
    \A lines \in LineRequests :
        LET created == MultiSale(DB, lines)
            voided == void_sale(After(created), TRUE, 1, nextSaleId,
                                <<"d", "u", "p">>, now)
        IN  ( /\ WellFormed(inventory)
              /\ created.result = "created"
              /\ ReservedInFull(inventory, lines, created.inventory)
              /\ voided.result = "voided" ) =>
                voided.inventory = inventory

\* C4: over any sequence of operations on a sale its stock is handed back
\* at most once.
C4_ReleasedOnce ==
    \A s \in AllSaleIds : releases[s] <= 1

\* C5: void_sale on a sale that is already voided reports that it is, and
\* changes no item and no field of the sale.
C5_VoidOfVoided ==
    \A s \in DOMAIN sales : \A user \in UserIds, reason \in VoidReasons :
        sales[s].payment_status = "voided" =>
            LET out == void_sale(DB, TRUE, user, s, reason, now)
            IN  /\ out.result = "already_voided"
                /\ out.inventory = inventory
                /\ out.sales = sales

\* C5 witness: a sale has been voided, and a further void_sale on it with a
\* reason is answered.
C5_Witness ==
    \E s \in DOMAIN sales :
        /\ sales[s].payment_status = "voided"
        /\ releases[s] = 1
        /\ void_sale(DB, TRUE, 1, s, <<"d", "u", "p">>, now).result = "already_voided"

\* C6: once a sale's payment status is voided no operation changes it.
C6_VoidedIsTerminal ==
    [][ \A s \in DOMAIN sales :
            (sales[s].payment_status = "voided" /\ s \in DOMAIN sales') =>
                sales'[s].payment_status = "voided" ]_vars

\* C7: confirm_payment on a sale that is already received fails and leaves
\* the confirmation time, the confirming user and the proof file unchanged.
C7_ConfirmOnlyFromPending ==
    \A s \in DOMAIN sales : \A user \in UserIds, proof \in ProofFiles :
        sales[s].payment_status = "received" =>
            LET out == confirm_payment(DB, TRUE, user, s, TRUE, proof, now)
            IN  /\ out.result = "invalid_transition"
                /\ out.sales[s].payment_confirmed_at = sales[s].payment_confirmed_at
                /\ out.sales[s].payment_confirmed_by = sales[s].payment_confirmed_by
                /\ out.sales[s].payment_proof_file = sales[s].payment_proof_file

---------------------------------------------------------------------------
(* Claims on requests that run concurrently (SpecConc) *)

AllIdle == \A w \in Workers : reqs[w].pc = "idle"

\* The units of item i that the single-item sales among `ids` sold.
RECURSIVE UnitsSold(_, _)
UnitsSold(ids, i) ==
    IF ids = {} THEN 0
    ELSE LET s == CHOOSE t \in ids : TRUE
         IN  (IF sales[s].inventory_id = i THEN sales[s].quantity_sold ELSE 0)
             + UnitsSold(ids \ {s}, i)

\* Every sale so far sold one item and none was voided.
OnlySingleItemSales ==
    \A s \in DOMAIN sales :
        sales[s].inventory_id # None /\ sales[s].payment_status # "voided"

\* C8: concurrent sale creations never over-reserve an item: the committed
\* quantities sum to at most the stock the item had, and the item is left
\* with that stock minus their sum.  Stated for the handlers that sell one
\* item, which check the stock before they sell.
C8_NoOverReserve ==
    OnlySingleItemSales =>
        \A i \in DOMAIN inventory :
            /\ UnitsSold(DOMAIN sales, i) <= intake[i]
            /\ AllIdle => inventory[i].quantity = intake[i] - UnitsSold(DOMAIN sales, i)

\* No two sales hold the same invoice number.
InvoiceNumbersUnique ==
    \A s, t \in DOMAIN sales :
        s # t => sales[s].invoice_number # sales[t].invoice_number

\* A request that ends in an error has left every table as it was.
FailsClean ==
    \A w \in Workers :
        (reqs[w].pc # "idle" /\ reqs'[w] = Idle("error")) =>
            /\ inventory' = inventory
            /\ sales' = sales
            /\ customers' = customers

\* C9: sale creations that run concurrently on one day never hold the same
\* invoice number, and the one that loses the number fails leaving nothing
\* behind.
C9_InvoiceNumbersUnderConcurrency ==
    /\ []InvoiceNumbersUnique
    /\ [][FailsClean]_vars

\* C9 witness: two creations read the same last invoice number; one holds
\* it, the other has failed on it.
C9_Witness ==
    \E w \in Workers :
        /\ reqs[w] = Idle("error")
        /\ \E s \in DOMAIN sales : sales[s].invoice_number = generate_invoice_number(<<>>, now)

\* C10: two void_sale requests for one sale never hand its stock back
\* twice.  Stated for a behaviour with one single-item sale: the item then
\* never holds more than it was taken in with.
C10_VoidReleasesOnce ==
    (nextSaleId = 2 /\ \A s \in DOMAIN sales : sales[s].inventory_id # None) =>
        \A i \in DOMAIN inventory : inventory[i].quantity <= intake[i]

---------------------------------------------------------------------------
(* Invoice numbering: sales are created and deleted over the days, on a    *)
(* ledger that has numbered sales before.                                  *)

\* The highest sequence number the day has reached when the behaviour
\* starts: none yet, or the last one that fits the padding.
InvoiceSeeds == {0, 10 ^ InvoiceSeqWidth - 1}

\* A sale of one unit of item 1 made earlier in the day.
SeedSale(sequence) ==
    NewSale([day |-> 1, seq |-> Format04d(sequence)], 1, "cash", 1, 1, 1, NoLines)

InitInvoice ==
    \E top \in InvoiceSeeds :
        /\ inventory = <<[quantity |-> MaxStock, status |-> "available"]>>
        /\ sales = IF top = 0 THEN <<>> ELSE <<SeedSale(top)>>
        /\ customers = {1}
        /\ nextSaleId = IF top = 0 THEN 1 ELSE 2
        /\ now = 1
        /\ releases = [s \in AllSaleIds |-> 0]
        /\ intake = <<MaxStock>>
        /\ issued = IF top = 0 THEN <<>> ELSE <<SeedSale(top).invoice_number>>
        /\ reqs = [w \in Workers |-> Idle("none")]

CreationRoutes == SingleItemRoutes \cup {"create_multi_item_sale"}

\* A sale of one unit of item 1 to a new customer, through one of the
\* three handlers that create sales.
CreationOf(route, db) ==
    IF route = "create_multi_item_sale"
    THEN MultiSale(db, << Line(1, 1) >>)
    ELSE SingleItemSaleOf(route, db, 1, 1)

NumberedCreate ==
    /\ nextSaleId <= MaxNumbered
    /\ \E route \in CreationRoutes : Apply(nextSaleId, CreationOf(route, DB))

NumberedDelete ==
    \E sale \in DOMAIN sales : Apply(sale, admin_delete_sale(DB, TRUE, sale, TRUE))

\* Midnight (UTC): datetime.utcnow() gives the next day's prefix.
NextDay ==
    /\ now < MaxDay
    /\ now' = now + 1
    /\ UNCHANGED <<inventory, sales, customers, nextSaleId, releases, intake, issued, reqs>>

NextInvoice ==
    \/ NumberedCreate
    \/ NumberedDelete
    \/ NextDay

SpecInvoice == InitInvoice /\ [][NextInvoice]_vars

\* The sequence number an invoice number carries.
SequenceOf(inv) == ParseInt(inv.seq)

\* C11: the invoice numbers issued on one day are unique and strictly
\* increasing in the order they were issued, over any sequence of sale
\* creations and deletions.
C11_IssuedStrictlyIncreasing ==
    \A i, j \in DOMAIN issued :
        (i < j /\ issued[i].day = issued[j].day) =>
            SequenceOf(issued[i]) < SequenceOf(issued[j])

\* The highest sequence number among the day's invoices, 0 when there is
\* none.
HighestSequence(rows, day) ==
    LET todays == { SequenceOf(rows[s].invoice_number) :
                        s \in { t \in DOMAIN rows : rows[t].invoice_number.day = day } }
    IN  IF todays = {} THEN 0 ELSE CHOOSE m \in todays : \A o \in todays : o <= m

\* C12: the next invoice number is the day's prefix followed by the highest
\* sequence number existing for that day plus one, and 1 when the day has
\* no invoice yet.
C12_NextInvoiceNumber ==
    generate_invoice_number(sales, now) =
        [day |-> now, seq |-> Format04d(HighestSequence(sales, now) + 1)]

---------------------------------------------------------------------------
(* Claims on what a sale creation persists (Spec) *)

\* The sale a creation has just committed.
Created(out) == out.sales[nextSaleId]

\* C13: a committed creation leaves each item with its stock before minus
\* the total quantity the request asks for that item; every other item is
\* untouched.
C13_StockDecrementedExactly ==
    /\ \A lines \in LineRequests :
            LET out == MultiSale(DB, lines)
            IN  out.result = "created" =>
                    \A i \in DOMAIN inventory :
                        out.inventory[i].quantity =
                            inventory[i].quantity - LineUnits(lines, i, 1)
    /\ \A route \in SingleItemRoutes, item \in ItemIds, qty \in QtyInputs :
            LET out == SingleItemSaleOf(route, DB, item, qty)
            IN  out.result = "created" =>
                    \A i \in DOMAIN inventory :
                        out.inventory[i].quantity =
                            inventory[i].quantity - (IF i = item THEN qty ELSE 0)

\* The quantity is a positive integer within the stock of the item.
WithinStock(item, qty) ==
    /\ qty >= 1
    /\ item \in DOMAIN inventory
    /\ qty <= inventory[item].quantity

\* C14: every sale line a creation persists has a quantity sold that is
\* positive and at most the stock its item had when the sale was created,
\* on the multi-item, the single-item and the mobile path.
C14_LineQuantityWithinStock ==
    /\ \A lines \in LineRequests :
            LET out == MultiSale(DB, lines)
            IN  out.result = "created" =>
                    \A k \in DOMAIN Created(out).sale_items :
                        WithinStock(Created(out).sale_items[k].inventory_id,
                                    Created(out).sale_items[k].quantity_sold)
    /\ \A route \in SingleItemRoutes, item \in ItemIds, qty \in QtyInputs :
            LET out == SingleItemSaleOf(route, DB, item, qty)
            IN  out.result = "created" =>
                    WithinStock(Created(out).inventory_id, Created(out).quantity_sold)

\* C15: a committed sale holds one line for each line request: no request
\* row is dropped while the others are committed.
C15_OneLinePerRequest ==
    \A lines \in LineRequests :
        LET out == MultiSale(DB, lines)
        IN  out.result = "created" => Len(Created(out).sale_items) = Len(lines)

C20_SoldIffEmpty ==
    \A i \in DOMAIN inventory :
        inventory[i].status = "sold" <=> inventory[i].quantity = 0

---------------------------------------------------------------------------
(* Pricing: multi-item sales whose lines carry prices and discounts, on a  *)
(* ledger with stock.  The session computes with exact Decimal values; the *)
(* money columns are Numeric(10, 2), so the database rounds each value to  *)
(* whole cents when it stores it.                                          *)

MaxPriced == 1      \* sales created in one behaviour of the pricing
PricedStock == 6    \* stock of the item the priced sales draw on

\* Which way the database rounds a half cent: away from zero, or to the
\* even cent.  The database is the one DATABASE_URL names.
RoundingModes == {"half_up", "half_even"}

\* A value of `points` as a Numeric(10, 2) column returns it.
Stored(mode, points) ==
    LET cents == points \div CentPoints
        rest == points % CentPoints
        up == IF 2 * rest > CentPoints THEN TRUE
              ELSE IF 2 * rest < CentPoints THEN FALSE
              ELSE IF mode = "half_up" THEN points >= 0
              ELSE cents % 2 # 0
    IN  (IF up THEN cents + 1 ELSE cents) * CentPoints

\* A sale_item row as the database returns it.
StoredLine(mode, line) ==
    [line EXCEPT !.line_total = Stored(mode, @),
                 !.discount_amount = Stored(mode, @),
                 !.final_line_total = Stored(mode, @)]

\* A sale row, with its sale_item rows, as the database returns it.
StoredSale(mode, sale) ==
    [sale EXCEPT !.sale_items = [k \in DOMAIN @ |-> StoredLine(mode, @[k])],
                 !.total_sale_price = Stored(mode, @),
                 !.total_discount_amount = Stored(mode, @),
                 !.final_total_price = Stored(mode, @)]

\* Quantities, unit prices (in cents) and discount percentages a priced
\* line posts: Decimal(str(...)) accepts any number.
PricedQuantities == {1, 3}
PricedPrices == {5, 999}
PricedDiscounts == {0 - 10, 0, 25, 50, 150}

PricedLineRequests ==
    UNION { [1..n -> LineRows({1}, PricedQuantities, PricedPrices, PricedDiscounts)] :
                n \in 0..MaxLines }

InitPricing ==
    /\ inventory = <<[quantity |-> PricedStock, status |-> "available"]>>
    /\ sales = <<>>
    /\ customers = {1}
    /\ nextSaleId = 1
    /\ now = 1
    /\ releases = [s \in AllSaleIds |-> 0]
    /\ intake = <<PricedStock>>
    /\ issued = <<>>
    /\ reqs = [w \in Workers |-> Idle("none")]

PricedCreate ==
    /\ nextSaleId <= MaxPriced
    /\ \E lines \in PricedLineRequests : Apply(nextSaleId, MultiSale(DB, lines))

PricedConfirm ==
    \E sale \in DOMAIN sales, proof \in ProofFiles :
        Apply(sale, confirm_payment(DB, TRUE, 1, sale, TRUE, proof, now))

PricedVoid ==
    \E sale \in DOMAIN sales :
        /\ releases[sale] < MaxReleases
        /\ Apply(sale, void_sale(DB, TRUE, 1, sale, <<"d", "u", "p">>, now))

PricedDelete ==
    \E sale \in DOMAIN sales :
        /\ releases[sale] < MaxReleases
        /\ Apply(sale, admin_delete_sale(DB, TRUE, sale, TRUE))

NextPricing ==
    \/ PricedCreate
    \/ PricedConfirm
    \/ PricedVoid
    \/ PricedDelete

SpecPricing == InitPricing /\ [][NextPricing]_vars

\* The percentage is outside 0..100.
InvalidDiscount(line) ==
    line.discount_percentage < 0 \/ line.discount_percentage > PercentBase

\* Every line of the sale carries a percentage within 0..100.
ValidDiscounts(sale) ==
    \A k \in DOMAIN sale.sale_items : ~InvalidDiscount(sale.sale_items[k])

\* C16: each persisted sale's final_total_price is the sum of
\* final_line_total over its lines, its total_sale_price the sum of
\* line_total, and its total_discount_amount the sum of discount_amount.
C16_TotalsAreLineSums ==
    \A mode \in RoundingModes : \A s \in DOMAIN sales :
        LET sale == StoredSale(mode, sales[s])
        IN  ValidDiscounts(sale) =>
                /\ sale.final_total_price =
                        SumOver(sale.sale_items, "final_line_total", 1)
                /\ sale.total_sale_price = SumOver(sale.sale_items, "line_total", 1)
                /\ sale.total_discount_amount =
                        SumOver(sale.sale_items, "discount_amount", 1)

\* `amount` is whole cents and no further than half a cent from
\* base * percentage / 100.
IsRoundedShare(amount, base, percentage) ==
    LET diff == amount * PercentBase - base * percentage
    IN  /\ amount % CentPoints = 0
        /\ 2 * diff <= CentPoints * PercentBase
        /\ 2 * diff >= 0 - CentPoints * PercentBase

\* C17: a line's line_total is quantity * unit_price, its discount_amount
\* is line_total * discount_percentage / 100 rounded to whole cents, and
\* its final_line_total is line_total - discount_amount.
C17_LineTotals ==
    \A mode \in RoundingModes : \A s \in DOMAIN sales :
        LET sale == StoredSale(mode, sales[s])
        IN  \A k \in DOMAIN sale.sale_items :
                LET row == sale.sale_items[k]
                IN  ~InvalidDiscount(row) =>
                        /\ row.line_total = row.quantity_sold * row.unit_price
                        /\ IsRoundedShare(row.discount_amount, row.line_total,
                                          row.discount_percentage)
                        /\ row.final_line_total = row.line_total - row.discount_amount

\* C18: a request with a line whose discount percentage is below 0 or
\* above 100 is rejected and leaves no sale, no line and no stock change;
\* no persisted line has a negative final_line_total or discount_amount.
C18_InvalidDiscountRejected ==
    /\ \A lines \in PricedLineRequests :
            (\E k \in DOMAIN lines : InvalidDiscount(lines[k])) =>
                LET out == MultiSale(DB, lines)
                IN  /\ out.result # "created"
                    /\ out.sales = sales
                    /\ out.inventory = inventory
                    /\ out.customers = customers
    /\ \A s \in DOMAIN sales : \A k \in DOMAIN sales[s].sale_items :
            /\ sales[s].sale_items[k].final_line_total >= 0
            /\ sales[s].sale_items[k].discount_amount >= 0

---------------------------------------------------------------------------
(* Claims on the operations on a sale (Spec) *)

\* The reason is empty once stripped.
Blank(reason) == Strip(reason) = <<>>

\* C21: void_sale with an empty or whitespace-only reason is rejected, as a
\* missing reason when the sale can be voided, and leaves the sale's status
\* and void fields and every item's stock unchanged.
C21_MissingReasonRejected ==
    \A s \in SaleIds, reason \in VoidReasons :
        Blank(reason) =>
            LET out == void_sale(DB, TRUE, 1, s, reason, now)
            IN  /\ out.sales = sales
                /\ out.inventory = inventory
                /\ (s \in DOMAIN sales /\ sales[s].payment_status # "voided") =>
                        out.result = "reason_required"

\* C21 witness: a sale that is not voided, holding stock of an item, and a
\* void with a whitespace-only reason that is rejected.
C21_Witness ==
    \E s \in DOMAIN sales :
        /\ sales[s].payment_status # "voided"
        /\ sales[s].sale_items # <<>> \/ sales[s].quantity_sold > 0
        /\ void_sale(DB, TRUE, 1, s, <<" ">>, now).result = "reason_required"

\* A handler that commits and then calls log_action: nothing is pending in
\* the session when the log is written.
AfterCommit(out, logged) ==
    [out EXCEPT !.inventory = log_action(out.inventory, out.inventory, logged)]

\* C22: when the audit log fails, the sale created, voided, confirmed or
\* deleted by the operation, and its stock changes, are persisted as when
\* the log succeeds.
C22_LogFailureKeepsBusinessState ==
    /\ \A lines \in LineRequests :
            AfterCommit(MultiSale(DB, lines), FALSE) = AfterCommit(MultiSale(DB, lines), TRUE)
    /\ \A s \in DOMAIN sales :
            /\ AfterCommit(VoidOf(DB, s), FALSE) = AfterCommit(VoidOf(DB, s), TRUE)
            /\ \A proof \in ProofFiles :
                    AfterCommit(confirm_payment(DB, TRUE, 1, s, TRUE, proof, now), FALSE) =
                        AfterCommit(confirm_payment(DB, TRUE, 1, s, TRUE, proof, now), TRUE)
            /\ admin_delete_sale(DB, TRUE, s, FALSE) = admin_delete_sale(DB, TRUE, s, TRUE)

\* The row names an item, and the ledger holds no such item.
UnknownItem(line) == IsKept(line) /\ line.inventory_id \notin DOMAIN inventory

RECURSIVE UnitsOnLines(_, _, _)
UnitsOnLines(lines, i, k) ==
    IF k > Len(lines) THEN 0
    ELSE (IF lines[k].inventory_id = i THEN lines[k].quantity_sold ELSE 0)
         + UnitsOnLines(lines, i, k + 1)

\* The units of item `i` a sale holds: its single-item field and its lines.
UnitsOf(sale, i) ==
    (IF sale.inventory_id = i THEN sale.quantity_sold ELSE 0)
    + UnitsOnLines(sale.sale_items, i, 1)

\* C24: after void_sale returns, either the sale is voided and every one of
\* its lines has been released to its item, or the sale and every item's
\* stock are as before the call.
C24_VoidAtomic ==
    \A s \in DOMAIN sales, reason \in VoidReasons :
        LET out == void_sale(DB, TRUE, 1, s, reason, now)
        IN  \/ /\ sales[s].payment_status # "voided"
               /\ out.sales[s].payment_status = "voided"
               /\ \A i \in DOMAIN inventory :
                    out.inventory[i].quantity =
                        inventory[i].quantity + UnitsOf(sales[s], i)
            \/ /\ out.sales = sales
               /\ out.inventory = inventory

\* C24 witness: a sale of as many lines as a form holds, each of one unit
\* or more, is voided.
C24_Witness ==
    \E s \in DOMAIN sales :
        /\ Len(sales[s].sale_items) = MaxLines
        /\ \A k \in DOMAIN sales[s].sale_items : sales[s].sale_items[k].quantity_sold >= 1
        /\ VoidOf(DB, s).result = "voided"

\* C25: edit_sale changes the customer and the payment details of the sale
\* only: the sale's payment status, totals, invoice number and lines, the
\* other sales and every item's stock stay as they are; a voided sale is
\* rejected and nothing changes.
C25_EditSaleFrame ==
    \A s \in DOMAIN sales, customer_id \in 1..MaxCustomers, method \in PaymentMethods :
        LET out == edit_sale(DB, TRUE, s, customer_id, method)
        IN  /\ out.inventory = inventory
            /\ DOMAIN out.sales = DOMAIN sales
            /\ \A t \in DOMAIN sales \ {s} : out.sales[t] = sales[t]
            /\ [out.sales[s] EXCEPT !.customer_id = sales[s].customer_id,
                                    !.payment_method = sales[s].payment_method] = sales[s]
            /\ sales[s].payment_status = "voided" =>
                    /\ out.result = "voided_sale"
                    /\ out.sales = sales

\* C25 witness: a voided sale, and an edit to another payment method that
\* is rejected.
C25_Witness ==
    \E s \in DOMAIN sales, method \in PaymentMethods :
        /\ sales[s].payment_status = "voided"
        /\ method # sales[s].payment_method
        /\ edit_sale(DB, TRUE, s, sales[s].customer_id, method).result = "voided_sale"

\* C26: a sale has payment status 'voided' exactly when its voided_at,
\* voided_by and void_reason are all set, the reason being non-empty.
C26_VoidedIffVoidFields ==
    \A s \in DOMAIN sales :
        sales[s].payment_status = "voided" <=>
            /\ sales[s].voided_at # None
            /\ sales[s].voided_by # None
            /\ sales[s].void_reason # <<>>

---------------------------------------------------------------------------
(* A void and a payment confirmation of one pending sale, two requests at  *)
(* a time.                                                                 *)

\* The ledger after one unit of item 1 was sold to a new customer through
\* one of the handlers that create sales.
InitRace ==
    /\ now = 1
    /\ releases = [s \in AllSaleIds |-> 0]
    /\ intake = <<MaxStock>>
    /\ reqs = [w \in Workers |-> Idle("none")]
    /\ \E route \in CreationRoutes :
        LET stocked == [ inventory |-> <<[quantity |-> MaxStock, status |-> "available"]>>,
                         sales |-> <<>>, customers |-> {}, nextSaleId |-> 1 ]
            out == CreationOf(route, stocked)
        IN  /\ inventory = out.inventory
            /\ sales = out.sales
            /\ customers = out.customers
            /\ nextSaleId = out.nextSaleId
            /\ issued = <<out.sales[1].invoice_number>>

Pending(sale) == sales[sale].payment_status = "pending"

\* void_sale of a pending sale reads the sale and checks its status.
RaceVoidLoad(w) ==
    /\ \A sale \in DOMAIN sales : Pending(sale)
    /\ CVoidLoad(w)

\* confirm_payment of a pending sale reads the sale (get_or_404).
CConfirmLoad(w) ==
    /\ reqs[w].pc = "idle"
    /\ \E sale \in DOMAIN sales :
        /\ Pending(sale)
        /\ reqs' = [reqs EXCEPT ![w] =
                        [pc |-> "confirm_loaded", sale |-> sale, snap |-> DB]]
    /\ UNCHANGED <<inventory, sales, customers, nextSaleId, now, releases, intake, issued>>

\* confirm_payment commits: UPDATE of the sale.
CConfirmCommit(w) ==
    /\ reqs[w].pc = "confirm_loaded"
    /\ \E proof \in ProofFiles :
        LET r == reqs[w]
            out == confirm_payment(r.snap, TRUE, 1, r.sale, TRUE, proof, now)
        IN  /\ sales' = WriteBackRows(sales, r.snap.sales, out.sales)
            /\ reqs' = [reqs EXCEPT ![w] = Idle("confirmed")]
    /\ UNCHANGED <<inventory, customers, nextSaleId, now, releases, intake, issued>>

NextRace ==
    \/ \E w \in Workers : RaceVoidLoad(w)
    \/ \E w \in Workers : CVoidItems(w)
    \/ \E w \in Workers : CVoidCommit(w)
    \/ \E w \in Workers : CConfirmLoad(w)
    \/ \E w \in Workers : CConfirmCommit(w)
    \/ NextDay

SpecRace == InitRace /\ [][NextRace]_vars

\* No request is in flight, and one has been served.
Quiescent ==
    /\ \A w \in Workers : reqs[w].pc = "idle"
    /\ \E w \in Workers : reqs[w].result # "none"

\* C27: once the void and the confirmation of a pending sale have both
\* returned, the sale's stock has been released if and only if the sale's
\* payment status is 'voided'.
C27_ReleasedIffVoided ==
    Quiescent =>
        \A s \in DOMAIN sales :
            releases[s] >= 1 <=> sales[s].payment_status = "voided"

---------------------------------------------------------------------------
(* Permissions *)

\* User.has_permission: the permissions of each role.
permissions ==
    [ office_admin |->
        { "manage_users", "view_all", "reconcile_payments", "manage_inventory",
          "create_sales", "view_inventory", "view_sales", "edit_inventory",
          "delete_inventory", "edit_sales", "delete_sales", "manage_customers",
          "view_customers", "edit_customers", "delete_customers", "manage_files",
          "view_files", "edit_files", "delete_files", "generate_reports",
          "export_data", "import_data", "system_settings", "view_reports" },
      sales_staff |->
        { "create_sales", "view_inventory", "view_sales", "manage_customers",
          "view_customers", "edit_customers", "view_files", "view_reports" },
      intake_staff |->
        { "manage_inventory", "view_inventory", "edit_inventory",
          "manage_files", "view_files", "edit_files" } ]

\* permission in permissions.get(self.role, [])
has_permission(role, permission) ==
    role \in DOMAIN permissions /\ permission \in permissions[role]

\* The sale is pending or received.
Voidable(sale) == sale.payment_status \in {"pending", "received"}

\* C28: for a user with role office_admin, void_sale on a pending or
\* received sale with a non-empty reason passes the permission check and
\* ends with the sale voided.
C28_OfficeAdminCanVoid ==
    \A s \in DOMAIN sales :
        Voidable(sales[s]) =>
            LET out == void_sale(DB, has_permission("office_admin", "void_sales"), 1, s,
                                 <<"d", "u", "p">>, now)
            IN  /\ out.result = "voided"
                /\ out.sales[s].payment_status = "voided"

---------------------------------------------------------------------------
(* Claims on deletions (Spec) *)

\* Every item holds in `after` what it holds now.
SameQuantities(after) ==
    \A i \in DOMAIN inventory : after[i].quantity = inventory[i].quantity

\* The creation `out`, when committed, followed by the deletion of the sale
\* it created, leaves every item's quantity as before the creation.
DeletionUndoes(out) ==
    out.result = "created" =>
        SameQuantities(admin_delete_sale(out, TRUE, nextSaleId, TRUE).inventory)

\* C29: admin_delete_sale of a sale that was never voided raises each
\* item's quantity by exactly the quantity the sale holds for it (its
\* single-item field or its lines), so that a creation followed by the
\* deletion of the sale leaves every item's quantity as before.
C29_DeleteRestoresStock ==
    /\ \A s \in DOMAIN sales :
            releases[s] = 0 =>
                \A i \in DOMAIN inventory :
                    admin_delete_sale(DB, TRUE, s, TRUE).inventory[i].quantity =
                        inventory[i].quantity + UnitsOf(sales[s], i)
    /\ \A lines \in LineRequests : DeletionUndoes(MultiSale(DB, lines))
    /\ \A route \in SingleItemRoutes, item \in ItemIds, qty \in QtyInputs :
            DeletionUndoes(SingleItemSaleOf(route, DB, item, qty))

---------------------------------------------------------------------------
(* Deletion of inventory items, on a ledger whose items are all taken in. *)

\* A sale names the item in its single-item field.
SoldSingly(rows, item) == \E s \in DOMAIN rows : rows[s].inventory_id = item

\* A line of a sale names the item.
SoldOnLine(rows, item) ==
    \E s \in DOMAIN rows : \E k \in DOMAIN rows[s].sale_items :
        rows[s].sale_items[k].inventory_id = item

\* admin_delete_inventory on tables whose sale_item.inventory_id can hold
\* NULL: the item is deleted under the lines that name it.
admin_delete_inventory_unconstrained(db, is_admin, item) ==
    IF ~is_admin THEN Unchanged(db, "denied")
    ELSE IF item \notin DOMAIN db.inventory THEN Unchanged(db, "not_found")
    ELSE IF SoldSingly(db.sales, item) THEN Unchanged(db, "has_sales")
    ELSE Committed(
            [i \in DOMAIN db.inventory \ {item} |-> db.inventory[i]],
            db.sales, db.customers, db.nextSaleId, "item_deleted")

\* admin_delete_inventory: office administrators only; an item that a sale
\* names in its single-item field is refused.  The deletion of an item that
\* a line names sets the line's inventory_id to NULL at the flush, which the
\* column (NOT NULL) refuses: the transaction is rolled back.  The
\* log_action before the commit finds only deletions of files pending.
admin_delete_inventory(db, is_admin, item) ==
    IF ~is_admin THEN Unchanged(db, "denied")
    ELSE IF item \notin DOMAIN db.inventory THEN Unchanged(db, "not_found")
    ELSE IF SoldSingly(db.sales, item) THEN Unchanged(db, "has_sales")
    ELSE IF SoldOnLine(db.sales, item) THEN Unchanged(db, "error")
    ELSE Committed(
            [i \in DOMAIN db.inventory \ {item} |-> db.inventory[i]],
            db.sales, db.customers, db.nextSaleId, "item_deleted")

InitIntegrity ==
    /\ inventory = [i \in ItemIds |-> [quantity |-> MaxQty, status |-> "available"]]
    /\ sales = <<>>
    /\ customers = {}
    /\ nextSaleId = 1
    /\ now = 1
    /\ releases = [s \in AllSaleIds |-> 0]
    /\ intake = [i \in ItemIds |-> MaxQty]
    /\ issued = <<>>
    /\ reqs = [w \in Workers |-> Idle("none")]

AdminDeleteInventory ==
    \E is_admin \in BOOLEAN :
    \E item \in Read(is_admin, ItemIds, 1) :
        /\ Serve(None, admin_delete_inventory(DB, is_admin, item))

NextIntegrity ==
    \/ AddSale
    \/ MobileCompleteSale
    \/ CreateMultiItemSale
    \/ VoidSale
    \/ AdminDeleteSale
    \/ AdminDeleteInventory

SpecIntegrity == InitIntegrity /\ [][NextIntegrity]_vars

\* C30: every sale that names an item, in its single-item field or on a
\* line, names an item that exists; admin_delete_inventory refuses to
\* delete an item that a sale names in either way.
C30_ReferentialIntegrity ==
    /\ \A s \in DOMAIN sales :
            /\ sales[s].inventory_id # None => sales[s].inventory_id \in DOMAIN inventory
            /\ \A k \in DOMAIN sales[s].sale_items :
                    sales[s].sale_items[k].inventory_id \in DOMAIN inventory
    /\ \A item \in DOMAIN inventory :
            (SoldSingly(sales, item) \/ SoldOnLine(sales, item)) =>
                LET out == admin_delete_inventory(DB, TRUE, item)
                IN  /\ out.result # "item_deleted"
                    /\ out.inventory = inventory
                    /\ out.sales = sales

\* C30 witness: an item that only a line of a sale names, whose deletion
\* is refused while another item has been deleted.
C30_Witness ==
    \E item \in DOMAIN inventory :
        /\ SoldOnLine(sales, item)
        /\ ~SoldSingly(sales, item)
        /\ DOMAIN inventory # ItemIds
        /\ admin_delete_inventory(DB, TRUE, item).result = "error"

=============================================================================
